---- MODULE Spec2Model ----
(***************************************************************************)
(* Model of MinecraftServerManager (src/src/server_panel.py): the server   *)
(* process supervisor, its caller thread and its log-reader threads.       *)
(*                                                                         *)
(* The caller thread runs the public operations one at a time; its         *)
(* position is pc, named after the source line it is about to execute.     *)
(* Where the caller sleeps (time.sleep, wait(timeout), the measuring       *)
(* interval of cpu_percent, the prompt of the menu) the reader threads run *)
(* until they block in readline() or finish: a sleep lasts at least a      *)
(* tenth of a second, a step of a reader some microseconds.  Between two   *)
(* statements of the caller that are not separated by a sleep, any         *)
(* interleaving with the readers is possible.                              *)
(* Every start_server() that spawns a child also starts one reader thread, *)
(* so reader thread t is the one started together with child t.  The       *)
(* children and the attached external server are environment processes:    *)
(* they print lines and exit on their own schedule.                        *)
(***************************************************************************)
EXTENDS Integers, Sequences, FiniteSets, TLC

(* ---------------- bounds of the model ---------------- *)
MaxProcs == 2          \* children that Popen can create in one run
MaxLines == 1          \* lines one child prints
StartPollLimit == 1    \* polls of the readiness wait before the 60 s ceiling
StopPollLimit == 2     \* range(30) liveness polls of stop_server
MaxStdin == 1          \* console commands accepted per child
MaxReadErrors == 1     \* readline() failures injected in one run
MaxNewlines == 2       \* trailing newlines of a console command

(* ---------------- program constants ---------------- *)
max_log_lines == 100   \* self.max_log_lines

None == 0
Children == 1..MaxProcs
External == MaxProcs + 1          \* the server found by main's attach step
AllProcs == Children \cup {External}

(* A log line is the set of the recognised substrings it contains. *)
ReadyLine == {"Done", "For help, type"}
BindLine == {"FAILED TO BIND TO PORT"}
DoneOnlyLine == {"Done"}
ChildLines == {DoneOnlyLine, ReadyLine, BindLine}
EndedLine == {"[Server process has ended]"}
ErrorLine == {"[Error reading server output"}
AttachedLine == {"[System] Attached to running server."}

\* What the tunnel scan of the reader looks for (lines 472-483): the four
\* keywords, an address the IP pattern matches, one the URL pattern matches.
TunnelWords == {"tunnel", "ngrok", "playit", "zrok"}
IpAddr == "203.0.113.7:25565"
UrlAddr == "https://a.example"
\* lines of a child that runs a tunnel; one keyword comes in capitals
TunnelLines == SUBSET {"tunnel", "NGROK", "playit", "zrok", IpAddr, UrlAddr}

\* the keys of self.tunnel_info, and an entry that is not in the dictionary
Services == {"ngrok", "playit", "zrok", "unknown"}
Absent == [present |-> FALSE, ips |-> {}, urls |-> {}]

StopCommand == [text |-> "stop", nl |-> 0]
Commands == {[text |-> "say hello", nl |-> n] : n \in 0..MaxNewlines}

ZeroUsage == "zero"
LiveUsage == "live"

VARIABLES
    configured,        \* server_dir, main_jar and java_executable are all set
    is_running,        \* self.is_running
    server_process,    \* self.server_process: None or the process it refers to
    stop_log_thread,   \* self.stop_log_thread
    log_thread,        \* self.log_thread: None or the thread last started
    log_buffer,        \* self.log_buffer
    resource_usage,    \* self.resource_usage
    tunnel_info,       \* self.tunnel_info: per service name, its entry
    pstate,            \* per process: "unborn", "alive" or "dead"
    emitted,           \* per process: number of lines printed so far
    stdin,             \* per process: strings received on standard input
    signals,           \* per process: signals received, in order
    thr,               \* per reader thread: position, handle it reads from
    read_errors,       \* readline() failures injected so far
    pc,                \* position of the caller thread
    frame,             \* "restart" while inside restart_server, else "none"
    cmd,               \* argument of the send_command call in progress
    polls,             \* iterations done by the polling loop in progress
    ready,             \* local of start_server
    fail,              \* local of start_server
    ret                \* the last return of an operation

vars == <<configured, is_running, server_process, stop_log_thread, log_thread,
          log_buffer, resource_usage, tunnel_info, pstate, emitted, stdin, signals,
          thr, read_errors, pc, frame, cmd, polls, ready, fail, ret>>

sup == <<is_running, server_process, stop_log_thread, log_thread,
         log_buffer, resource_usage>>
env == <<pstate, emitted, stdin, signals>>
hist == <<emitted, stdin, signals>>
locals == <<cmd, polls, ready, fail>>

(* ---------------- helpers ---------------- *)
IsPopen(h) == h \in Children
IsPsutil(h) == h = External

\* Popen.poll() is not None
Exited(h) == pstate[h] = "dead"

ThreadAlive(t) == thr[t].pc \notin {"none", "done", "crashed"}
LiveReaders == {t \in Children : ThreadAlive(t)}

\* a reader that sits in readline() on the output of a live process
Blocked(t) ==
    /\ thr[t].pc = "r456_wait"
    /\ ~Exited(thr[t].h)

\* no reader can take a step: what a sleep of the caller lets happen first
Quiet == \A t \in Children : ~ThreadAlive(t) \/ Blocked(t)

\* log_buffer[-max_log_lines:] when the buffer is too long (lines 467-468)
Trim(buf) ==
    IF Len(buf) > max_log_lines
    THEN SubSeq(buf, Len(buf) - max_log_lines + 1, Len(buf))
    ELSE buf

\* the two tests of the scan (lines 337 and 340)
IsReadyLine(line) == ("Done" \in line) /\ ("For help, type" \in line)
IsBindLine(line) == "FAILED TO BIND TO PORT" \in line

\* a scan that knows the bind failure only
ScanLogs_NoReady(buf) ==
    IF \E i \in 1..Len(buf) : IsBindLine(buf[i]) THEN "fail" ELSE "none"

\* the for loop over log_buffer in start_server (lines 336-342): the first
\* line that passes one of the two tests decides and ends the loop
ScanLogs(buf) ==
    LET hits == {i \in 1..Len(buf) : IsReadyLine(buf[i]) \/ IsBindLine(buf[i])}
    IN  IF hits = {} THEN "none"
        ELSE LET first == CHOOSE i \in hits : \A j \in hits : i <= j
             IN  IF IsReadyLine(buf[first]) THEN "ready" ELSE "fail"

\* str.lower() on the substrings the model knows
Lower(x) == IF x = "NGROK" THEN "ngrok" ELSE x

\* word in line.lower()
HasWord(line, word) == \E x \in line : Lower(x) = word

\* re.findall of the IP pattern (line 474) and of the URL pattern (line 475)
ip_matches(line) == line \cap {IpAddr}
url_matches(line) == line \cap {UrlAddr}

\* a scan that files every hit under "unknown"
service_name_Unknown(line) == "unknown"

\* lines 478-484
service_name(line) ==
    IF HasWord(line, "ngrok") THEN "ngrok"
    ELSE IF HasWord(line, "playit") THEN "playit"
    ELSE IF HasWord(line, "zrok") THEN "zrok"
    ELSE "unknown"

\* lines 472-490: the tunnel scan of one line
ScanTunnel(line, info) ==
    IF /\ \E word \in TunnelWords : HasWord(line, word)
       /\ ip_matches(line) # {} \/ url_matches(line) # {}
    THEN [info EXCEPT ![service_name(line)] =
             [present |-> TRUE, ips |-> ip_matches(line),
              urls |-> url_matches(line)]]
    ELSE info

\* A process that no handle refers to any more is no longer observed: what
\* is recorded about it is forgotten when self.server_process is overwritten.
Forget(f, h, v) == IF h \in DOMAIN f THEN [f EXCEPT ![h] = v] ELSE f

\* lines 435-436 of send_command
Normalize(c) == IF c.nl = 0 THEN [c EXCEPT !.nl = 1] ELSE c

\* no operation has returned since the last call
NoReturn == [op |-> "none", ok |-> TRUE, via |-> "none", by |-> "none",
             wait |-> "none"]

Init ==
    /\ configured \in BOOLEAN
    /\ is_running = FALSE
    /\ server_process = None
    /\ stop_log_thread = FALSE
    /\ log_thread = None
    /\ log_buffer = <<>>
    /\ resource_usage = ZeroUsage
    /\ tunnel_info = [s \in Services |-> Absent]
    /\ pstate = [p \in AllProcs |-> IF p = External THEN "alive" ELSE "unborn"]
    /\ emitted = [p \in AllProcs |-> 0]
    /\ stdin = [p \in AllProcs |-> <<>>]
    /\ signals = [p \in AllProcs |-> <<>>]
    /\ thr = [t \in Children |-> [pc |-> "none", h |-> None]]
    /\ read_errors = 0
    /\ pc = "idle"
    /\ frame = "none"
    /\ cmd = StopCommand
    /\ polls = 0
    /\ ready = FALSE
    /\ fail = FALSE
    /\ ret = NoReturn

(* ---------------- calling and returning ---------------- *)
\* stop_server returning inside restart_server goes on at line 417;
\* everything else hands control back to the menu loop.
\* how the readiness wait of start_server ended (lines 325-345)
WaitEnd ==
    IF pc \notin {"start_349", "start_356", "start_614"} THEN "none"
    ELSE IF ready THEN "ready"
    ELSE IF ~fail THEN "timeout"
    ELSE IF ScanLogs(log_buffer) = "fail" THEN "bind_failure"
    ELSE "exited"

Return(op, ok, via) ==
    /\ ret' = [op |-> op, ok |-> ok, via |-> via, by |-> frame, wait |-> WaitEnd]
    /\ IF frame = "restart" /\ op = "stop_server" /\ ok
       THEN pc' = "restart_422" /\ frame' = frame
       ELSE pc' = "idle" /\ frame' = "none"
    /\ cmd' = StopCommand /\ polls' = 0 /\ ready' = FALSE /\ fail' = FALSE


(* ---------------- the environment: processes ---------------- *)
\* a live process exits: on its own, after "stop", or after terminate()
ProcExit(p) ==
    /\ p \in AllProcs
    /\ pstate[p] = "alive"
    /\ p = External => server_process = External
    /\ pstate' = [pstate EXCEPT ![p] = "dead"]
    /\ UNCHANGED <<configured, tunnel_info, sup, hist, thr, read_errors, pc, frame,
                   locals, ret>>

\* self.server_process = new: the old handle is dropped
SetHandle(new) ==
    /\ server_process' = new
    /\ emitted' = Forget(emitted, server_process, 0)
    /\ signals' = Forget(signals, server_process, <<>>)

(* ---------------- _update_resource_usage (lines 596-634) ---------------- *)
\* a psutil that answers for any pid
QueryOutcomes_AlwaysOk(h) == {"ok"}

\* what psutil answers for the process behind the handle: a process that is
\* gone raises NoSuchProcess/ZombieProcess, a foreign (attached) process may
\* raise AccessDenied, a live one is measured
QueryOutcomes(h) ==
    IF Exited(h) THEN {"gone"}
    ELSE IF IsPsutil(h) THEN {"ok", "denied"}
    ELSE {"ok"}

\* line 600
UsageNotRunning == ~is_running \/ server_process = None

\* lines 598-607: the zeroed snapshot, or on to the measurement at "to"
UsageCheck(op, to) ==
    /\ IF UsageNotRunning
       THEN /\ resource_usage' = ZeroUsage
            /\ Return(op, TRUE, IF op = "start_server" THEN "started" ELSE "zeroed")
       ELSE /\ pc' = to
            /\ UNCHANGED <<resource_usage, frame, locals, ret>>
    /\ UNCHANGED <<configured, tunnel_info, is_running, server_process, stop_log_thread,
                   log_thread, log_buffer, env, thr, read_errors>>

\* lines 609-631: the measurement, which takes cpu_percent's half second
UsageMeasure(op) ==
    /\ Quiet
    /\ \E o \in QueryOutcomes(server_process) :
          IF o = "ok"
          THEN /\ resource_usage' = LiveUsage
               /\ UNCHANGED <<is_running, server_process, hist>>
               /\ Return(op, TRUE, IF op = "start_server" THEN "started" ELSE "measured")
          ELSE /\ is_running' = FALSE
               /\ SetHandle(None)
               /\ stdin' = Forget(stdin, server_process, <<>>)
               /\ UNCHANGED resource_usage
               /\ Return(op, TRUE, IF op = "start_server" THEN "started" ELSE "lost")
    /\ UNCHANGED <<configured, tunnel_info, stop_log_thread, log_thread, log_buffer,
                   pstate, thr, read_errors>>

(* ---------------- send_command (lines 427-446) ---------------- *)
\* send_command that looks at the handle only
SendNotRunning_HandleOnly == server_process = None

\* line 429
SendNotRunning == ~is_running \/ server_process = None

\* stdin.write()/flush() succeed: the handle is a Popen with an open pipe
SendWrites ==
    /\ ~SendNotRunning
    /\ IsPopen(server_process)
    /\ ~Exited(server_process)

SendVia == IF SendNotRunning THEN "not_running"
           ELSE IF SendWrites THEN "written" ELSE "error"

SendBody(c) ==
    stdin' = IF SendWrites
             THEN [stdin EXCEPT ![server_process] = Append(@, Normalize(c))]
             ELSE stdin

(* ---------------- the menu loop: calls of the operations ---------------- *)
\* a choice of the menu: the operation is entered, nothing has returned yet
Call(entry) ==
    /\ pc = "idle"
    /\ Quiet
    /\ pc' = entry
    /\ ret' = NoReturn
    /\ UNCHANGED <<configured, tunnel_info, sup, env, thr, read_errors>>

CallStart == Call("start_266") /\ UNCHANGED <<frame, locals>>
CallStop == Call("stop_368") /\ UNCHANGED <<frame, locals>>
CallRestart == Call("restart_410") /\ frame' = "restart" /\ UNCHANGED locals
CallSend ==
    /\ server_process # None => Len(stdin[server_process]) < MaxStdin
    /\ Call("send_429")
    /\ \E c \in Commands : cmd' = c
    /\ UNCHANGED <<frame, polls, ready, fail>>
CallStatus == Call("status_591") /\ UNCHANGED <<frame, locals>>
CallUsage == Call("usage_598") /\ UNCHANGED <<frame, locals>>

\* main, lines 1370-1378: attach to a server that is already running.  It
\* happens once, before the menu loop.
Attach ==
    /\ pc = "idle"
    /\ ret = NoReturn
    /\ configured
    /\ pstate[External] = "alive"
    /\ \E o \in QueryOutcomes(External) :
          IF o = "ok"
          THEN /\ server_process' = External
               /\ is_running' = TRUE
               /\ resource_usage' = LiveUsage
          ELSE /\ server_process' = None
               /\ is_running' = FALSE
               /\ UNCHANGED resource_usage
    /\ log_buffer' = Append(log_buffer, AttachedLine)
    /\ ret' = [NoReturn EXCEPT !.op = "attach"]
    /\ UNCHANGED <<configured, tunnel_info, stop_log_thread, log_thread, env, thr,
                   read_errors, pc, frame, locals>>

(* ---------------- start_server (lines 264-364) ---------------- *)
\* start_server without the check of line 266
AlreadyRunning_Never == FALSE

\* line 266
AlreadyRunning == is_running

\* lines 266-288: already running, incomplete information, EULA declined
Start266 ==
    /\ pc = "start_266"
    /\ IF AlreadyRunning
       THEN Return("start_server", TRUE, "already_running")
       ELSE IF ~configured
       THEN Return("start_server", FALSE, "incomplete")
       ELSE \/ Return("start_server", FALSE, "eula_declined")
            \/ /\ pc' = "start_307"
               /\ UNCHANGED <<frame, locals, ret>>
    /\ UNCHANGED <<configured, tunnel_info, sup, env, thr, read_errors>>

\* a handler that leaves the handle as it finds it
SpawnFailed_KeepsHandle ==
    /\ UNCHANGED <<server_process, emitted, signals>>
    /\ Return("start_server", FALSE, "spawn_failed")

\* lines 361-364: the handler of start_server, entered when Popen raises
SpawnFailed ==
    /\ SetHandle(None)
    /\ Return("start_server", FALSE, "spawn_failed")

\* lines 307-327: Popen, then the log thread; Popen may also raise
Start307 ==
    /\ pc = "start_307"
    /\ \/ \E c \in Children :
             /\ pstate[c] = "unborn"
             /\ \A d \in Children : d < c => pstate[d] # "unborn"
             /\ pstate' = [pstate EXCEPT ![c] = "alive"]
             /\ SetHandle(c)
             /\ stop_log_thread' = FALSE
             /\ log_thread' = c
             /\ thr' = [thr EXCEPT ![c] = [pc |-> "r450", h |-> None]]
             /\ pc' = "start_330"
             /\ polls' = 0 /\ ready' = FALSE /\ fail' = FALSE
             /\ UNCHANGED <<frame, cmd, ret>>
       \/ /\ SpawnFailed
          /\ UNCHANGED <<pstate, stop_log_thread, log_thread, thr>>
    /\ stdin' = Forget(stdin, server_process, <<>>)
    /\ UNCHANGED <<configured, tunnel_info, is_running, log_buffer, resource_usage,
                   read_errors>>

\* lines 330-347: one iteration of the readiness wait
Start330 ==
    /\ pc = "start_330"
    /\ IF polls >= StartPollLimit
       THEN pc' = "start_349" /\ UNCHANGED <<polls, ready, fail>>
       ELSE IF server_process = None \/ Exited(server_process)
       THEN pc' = "start_349" /\ fail' = TRUE /\ UNCHANGED <<polls, ready>>
       ELSE IF ScanLogs(log_buffer) = "ready"
       THEN pc' = "start_349" /\ ready' = TRUE /\ UNCHANGED <<polls, fail>>
       ELSE IF ScanLogs(log_buffer) = "fail"
       THEN pc' = "start_349" /\ fail' = TRUE /\ UNCHANGED <<polls, ready>>
       ELSE pc' = "start_347" /\ polls' = polls + 1 /\ UNCHANGED <<ready, fail>>
    /\ UNCHANGED <<configured, tunnel_info, sup, env, thr, read_errors, frame, cmd, ret>>

\* line 347: time.sleep(0.5)
Start347 ==
    /\ pc = "start_347"
    /\ Quiet
    /\ pc' = "start_330"
    /\ UNCHANGED <<configured, tunnel_info, sup, env, thr, read_errors, frame, locals, ret>>

\* a start_server that does not look at the child after the wait
StartedDead_Never == FALSE

\* line 349: the child is gone when the wait is over
StartedDead == server_process = None \/ Exited(server_process)

\* lines 349-352
Start349 ==
    /\ pc = "start_349"
    /\ IF StartedDead
       THEN /\ SetHandle(None)
            /\ stdin' = Forget(stdin, server_process, <<>>)
            /\ Return("start_server", FALSE, "exited")
       ELSE /\ pc' = "start_355"
            /\ UNCHANGED <<server_process, hist, frame, locals, ret>>
    /\ UNCHANGED <<configured, tunnel_info, is_running, stop_log_thread, log_thread,
                   log_buffer, resource_usage, pstate, thr, read_errors>>

\* line 355
Start355 ==
    /\ pc = "start_355"
    /\ is_running' = TRUE
    /\ pc' = "start_356"
    /\ UNCHANGED <<configured, tunnel_info, server_process, stop_log_thread, log_thread,
                   log_buffer, resource_usage, env, thr, read_errors, frame,
                   locals, ret>>

\* lines 356-359: _update_resource_usage(), then the success return
Start356 == pc = "start_356" /\ UsageCheck("start_server", "start_614")
Start614 == pc = "start_614" /\ UsageMeasure("start_server")


(* ---------------- stop_server (lines 366-406) ---------------- *)
\* stop_server that looks at the handle only
StopNotRunning_HandleOnly == server_process = None

\* stop_server without the check of line 368
StopNotRunning_Never == FALSE

\* line 368
StopNotRunning == ~is_running \/ server_process = None

Stop368 ==
    /\ pc = "stop_368"
    /\ IF StopNotRunning
       THEN Return("stop_server", TRUE, "not_running")
       ELSE pc' = "stop_375" /\ UNCHANGED <<frame, locals, ret>>
    /\ UNCHANGED <<configured, tunnel_info, sup, env, thr, read_errors>>

\* line 375: send_command("stop"); its result is ignored
Stop375 ==
    /\ pc = "stop_375"
    /\ SendBody(StopCommand)
    /\ pc' = "stop_378"
    /\ polls' = 0
    /\ UNCHANGED <<configured, tunnel_info, sup, pstate, emitted, signals, thr,
                   read_errors, frame, cmd, ready, fail, ret>>

\* a handler that forgets to clear the handle
StopFailed_KeepsHandle ==
    /\ is_running' = FALSE
    /\ UNCHANGED <<server_process, hist>>
    /\ Return("stop_server", FALSE, "error")

\* lines 402-406: the handler of stop_server
StopFailed ==
    /\ is_running' = FALSE
    /\ SetHandle(None)
    /\ stdin' = Forget(stdin, server_process, <<>>)
    /\ Return("stop_server", FALSE, "error")

\* a stop_server that gives up polling after the first poll
StopPollsDone_First(n) == n >= 1

\* a stop_server that polls until the child is gone
StopPollsDone_Never(n) == FALSE

\* the polls of range(30) are used up (line 378)
StopPollsDone(n) == n >= StopPollLimit

\* lines 378-380: one liveness poll.  A psutil.Process has no poll().
Stop378 ==
    /\ pc = "stop_378"
    /\ IF ~IsPopen(server_process)
       THEN StopFailed
       ELSE /\ IF Exited(server_process)
               THEN pc' = "stop_384" /\ polls' = polls
               ELSE pc' = "stop_381" /\ polls' = polls + 1
            /\ UNCHANGED <<is_running, server_process, hist, frame, cmd,
                           ready, fail, ret>>
    /\ UNCHANGED <<configured, tunnel_info, stop_log_thread, log_thread, log_buffer,
                   resource_usage, pstate, thr, read_errors>>

\* line 381: time.sleep(1), then the next poll or the end of the loop
Stop381 ==
    /\ pc = "stop_381"
    /\ Quiet
    /\ pc' = IF StopPollsDone(polls) THEN "stop_384" ELSE "stop_378"
    /\ UNCHANGED <<configured, tunnel_info, sup, env, thr, read_errors, frame, locals, ret>>

\* lines 384-386: terminate() if the child is still alive
Stop384 ==
    /\ pc = "stop_384"
    /\ IF Exited(server_process)
       THEN pc' = "stop_393" /\ UNCHANGED signals
       ELSE /\ signals' = [signals EXCEPT ![server_process] = Append(@, "terminate")]
            /\ pc' = "stop_388"
    /\ UNCHANGED <<configured, tunnel_info, sup, pstate, emitted, stdin, thr,
                   read_errors, frame, locals, ret>>

\* lines 387-390: wait(timeout=5), and kill() when it times out
Stop388 ==
    /\ pc = "stop_388"
    /\ Exited(server_process) \/ Quiet
    /\ IF Exited(server_process)
       THEN UNCHANGED <<signals, pstate>>
       ELSE /\ signals' = [signals EXCEPT ![server_process] = Append(@, "kill")]
            /\ pstate' = [pstate EXCEPT ![server_process] = "dead"]
    /\ pc' = "stop_393"
    /\ UNCHANGED <<configured, tunnel_info, sup, emitted, stdin, thr, read_errors,
                   frame, locals, ret>>

\* line 393
Stop393 ==
    /\ pc = "stop_393"
    /\ stop_log_thread' = TRUE
    /\ pc' = "stop_394"
    /\ UNCHANGED <<configured, tunnel_info, is_running, server_process, log_thread,
                   log_buffer, resource_usage, env, thr, read_errors, frame,
                   locals, ret>>

\* a stop_server that does not join the log thread
JoinReturns_NoWait == TRUE

\* lines 394-395: join(2) returns when the thread has finished, or after two
\* seconds, which a thread that cannot proceed lets pass
JoinReturns ==
    \/ log_thread = None
    \/ ~ThreadAlive(log_thread)
    \/ Blocked(log_thread)

\* the escalation tier that ended the child
StopTier(h) == IF signals[h] = <<>> THEN "graceful"
               ELSE IF Len(signals[h]) = 1 THEN "terminated" ELSE "killed"

\* lines 394-400
Stop394 ==
    /\ pc = "stop_394"
    /\ JoinReturns
    /\ is_running' = FALSE
    /\ SetHandle(None)
    /\ stdin' = Forget(stdin, server_process, <<>>)
    /\ Return("stop_server", TRUE, StopTier(server_process))
    /\ UNCHANGED <<configured, tunnel_info, stop_log_thread, log_thread, log_buffer,
                   resource_usage, pstate, thr, read_errors>>

(* ---------------- restart_server (lines 408-425) ---------------- *)
\* lines 410-417
Restart410 ==
    /\ pc = "restart_410"
    /\ pc' = IF ~is_running THEN "start_266" ELSE "stop_368"
    /\ UNCHANGED <<configured, tunnel_info, sup, env, thr, read_errors, frame, locals, ret>>

\* lines 422-425: the settle delay, then start_server
Restart422 ==
    /\ pc = "restart_422"
    /\ Quiet
    /\ pc' = "start_266"
    /\ UNCHANGED <<configured, tunnel_info, sup, env, thr, read_errors, frame, locals, ret>>

(* ---------------- send_command, get_status, refresh ---------------- *)
Send429 ==
    /\ pc = "send_429"
    /\ SendBody(cmd)
    /\ Return("send_command", SendWrites, SendVia)
    /\ UNCHANGED <<configured, tunnel_info, sup, pstate, emitted, signals, thr, read_errors>>

\* lines 590-594; the five seconds since last_status_check may have passed
Status591 ==
    /\ pc = "status_591"
    /\ \/ /\ is_running
          /\ pc' = "status_598"
          /\ UNCHANGED <<frame, locals, ret>>
       \/ Return("get_status", TRUE, "snapshot")
    /\ UNCHANGED <<configured, tunnel_info, sup, env, thr, read_errors>>

Status598 == pc = "status_598" /\ UsageCheck("get_status", "status_614")
Status614 == pc = "status_614" /\ UsageMeasure("get_status")

\* the menu loop's own call of _update_resource_usage (lines 1190, 1400)
Usage598 == pc = "usage_598" /\ UsageCheck("update_resource_usage", "usage_614")
Usage614 == pc = "usage_614" /\ UsageMeasure("update_resource_usage")

(* ---------------- _read_server_output (lines 448-500) ---------------- *)
Goto(t, l) == thr' = [thr EXCEPT ![t].pc = l]

\* line 450: the loop condition
Read450(t) ==
    /\ thr[t].pc = "r450"
    /\ IF ~stop_log_thread /\ server_process # None
       THEN Goto(t, "r452")
       ELSE Goto(t, "r498")
    /\ UNCHANGED <<configured, tunnel_info, sup, env, read_errors, pc, frame, locals, ret>>

\* lines 452-456: poll() of whatever self.server_process is now, then
\* readline() starts on its stdout; on None both raise AttributeError
Read452(t) ==
    /\ thr[t].pc = "r452"
    /\ IF server_process = None THEN Goto(t, "r493")
       ELSE IF Exited(server_process) THEN Goto(t, "r498")
       ELSE thr' = [thr EXCEPT ![t] = [pc |-> "r456_wait", h |-> server_process]]
    /\ UNCHANGED <<configured, tunnel_info, sup, env, read_errors, pc, frame, locals, ret>>

\* lines 456-490: the live process prints a line, readline() returns it and
\* it goes to the buffer, with a timestamp in front (which holds no marker),
\* and through the tunnel scan
ReadLineOf(t, lines) ==
    /\ thr[t].pc = "r456_wait"
    /\ thr[t].h \in Children
    /\ pstate[thr[t].h] = "alive"
    /\ emitted[thr[t].h] < MaxLines
    /\ \E line \in lines :
          /\ log_buffer' = Trim(Append(log_buffer, line))
          /\ tunnel_info' = ScanTunnel(line, tunnel_info)
    /\ emitted' = [emitted EXCEPT ![thr[t].h] = @ + 1]
    /\ thr' = [thr EXCEPT ![t] = [pc |-> "r450", h |-> None]]
    /\ UNCHANGED <<configured, is_running, server_process, stop_log_thread,
                   log_thread, resource_usage, pstate, stdin, signals,
                   read_errors, pc, frame, locals, ret>>

\* a line of the server itself
ReadLine(t) == ReadLineOf(t, ChildLines)

\* a line of a child that runs a tunnel
ReadTunnelLine(t) == ReadLineOf(t, TunnelLines)

\* lines 456-457: the live process prints an empty line, strip() leaves '';
\* nothing is logged and the loop goes on at line 450
ReadBlank(t) ==
    /\ thr[t].pc = "r456_wait"
    /\ thr[t].h \in Children
    /\ pstate[thr[t].h] = "alive"
    /\ emitted[thr[t].h] < MaxLines
    /\ emitted' = [emitted EXCEPT ![thr[t].h] = @ + 1]
    /\ thr' = [thr EXCEPT ![t] = [pc |-> "r450", h |-> None]]
    /\ UNCHANGED <<configured, tunnel_info, sup, pstate, stdin, signals,
                   read_errors, pc, frame, locals, ret>>

\* lines 456-457: readline() returns '' at end of file; nothing is logged
ReadEof(t) ==
    /\ thr[t].pc = "r456_wait"
    /\ Exited(thr[t].h)
    /\ thr' = [thr EXCEPT ![t] = [pc |-> "r450", h |-> None]]
    /\ UNCHANGED <<configured, tunnel_info, sup, env, read_errors, pc, frame, locals, ret>>

\* line 456: readline() raises (a decoding error, a closed file)
ReadError(t) ==
    /\ thr[t].pc = "r456_wait"
    /\ read_errors < MaxReadErrors
    /\ read_errors' = read_errors + 1
    /\ thr' = [thr EXCEPT ![t] = [pc |-> "r493", h |-> None]]
    /\ UNCHANGED <<configured, tunnel_info, sup, env, pc, frame, locals, ret>>

\* a handler that gives up reading
AfterHandler_Break == "r498"

\* line 495: after the sleep the handler falls through to the loop condition
AfterHandler == "r450"

\* lines 492-495: the handler inside the loop
Read493(t) ==
    /\ thr[t].pc = "r493"
    /\ log_buffer' = IF ~stop_log_thread
                     THEN Append(log_buffer, ErrorLine)
                     ELSE log_buffer
    /\ Goto(t, AfterHandler)
    /\ UNCHANGED <<configured, tunnel_info, is_running, server_process, stop_log_thread,
                   log_thread, resource_usage, env, read_errors, pc, frame,
                   locals, ret>>

\* line 498, left operand: self.server_process is not None
Read498(t) ==
    /\ thr[t].pc = "r498"
    /\ IF server_process # None THEN Goto(t, "r498_poll") ELSE Goto(t, "done")
    /\ UNCHANGED <<configured, tunnel_info, sup, env, read_errors, pc, frame, locals, ret>>

\* lines 498-500, right operand and body: self.server_process.poll() outside
\* any handler, then the status update
Read498Poll(t) ==
    /\ thr[t].pc = "r498_poll"
    /\ IF server_process = None
       THEN Goto(t, "crashed") /\ UNCHANGED <<is_running, log_buffer>>
       ELSE IF Exited(server_process)
       THEN /\ is_running' = FALSE
            /\ log_buffer' = Append(log_buffer, EndedLine)
            /\ Goto(t, "done")
       ELSE Goto(t, "done") /\ UNCHANGED <<is_running, log_buffer>>
    /\ UNCHANGED <<configured, tunnel_info, server_process, stop_log_thread, log_thread,
                   resource_usage, env, read_errors, pc, frame, locals, ret>>

Reader(t) ==
    \/ Read450(t) \/ Read452(t) \/ ReadLine(t) \/ ReadEof(t)
    \/ Read493(t) \/ Read498(t) \/ Read498Poll(t)

\* the choices of the menu and line 1400
Calls ==
    \/ CallStart \/ CallStop \/ CallRestart \/ CallSend \/ CallStatus
    \/ CallUsage

\* the statements of the operations
Operations ==
    \/ Start266 \/ Start307 \/ Start330 \/ Start347 \/ Start349 \/ Start355
    \/ Start356 \/ Start614
    \/ Stop368 \/ Stop375 \/ Stop378 \/ Stop381 \/ Stop384 \/ Stop388
    \/ Stop393 \/ Stop394
    \/ Restart410 \/ Restart422 \/ Send429
    \/ Status591 \/ Status598 \/ Status614 \/ Usage598 \/ Usage614

\* the menu loop of main (lines 1390-1494) and the operations it calls
MenuLoop == Calls \/ Operations

\* main: the attach step, then the menu loop
Caller == Attach \/ MenuLoop

Next ==
    \/ Caller
    \/ \E t \in Children : Reader(t)
    \/ \E p \in AllProcs : ProcExit(p)

Spec == Init /\ [][Next]_vars

\* The scheduling the program can count on: a thread that can take a step
\* takes it (the caller inside an operation, each log reader), and the menu
\* loop, which calls _update_resource_usage() at line 1400 in every
\* iteration, keeps iterating.
Fairness ==
    /\ WF_vars(Operations)
    /\ \A t \in Children : WF_vars(Reader(t))
    /\ SF_vars(CallUsage)

SpecFair == Spec /\ Fairness

\* the same program when readline() may also fail
NextReadErrors == Next \/ \E t \in Children : ReadError(t)

SpecReadErrors == Init /\ [][NextReadErrors]_vars

\* The program some time into a run: child 1 was started, printed its
\* readiness line, start_server returned, and the child has gone on
\* printing; its reader waits for the next line, the buffer holds buf.
\* emitted counts the lines printed from here on.
InitRunning(buf) ==
    /\ configured = TRUE
    /\ is_running = TRUE
    /\ server_process = 1
    /\ stop_log_thread = FALSE
    /\ log_thread = 1
    /\ log_buffer = buf
    /\ resource_usage = LiveUsage
    /\ tunnel_info = [s \in Services |-> Absent]
    /\ pstate = [p \in AllProcs |-> IF p = 2 THEN "unborn" ELSE "alive"]
    /\ emitted = [p \in AllProcs |-> 0]
    /\ stdin = [p \in AllProcs |-> <<>>]
    /\ signals = [p \in AllProcs |-> <<>>]
    /\ thr = [t \in Children |->
                 IF t = 1 THEN [pc |-> "r456_wait", h |-> 1]
                 ELSE [pc |-> "none", h |-> None]]
    /\ read_errors = 0
    /\ pc = "idle"
    /\ frame = "none"
    /\ cmd = StopCommand
    /\ polls = 0
    /\ ready = FALSE
    /\ fail = FALSE
    /\ ret = [op |-> "start_server", ok |-> TRUE, via |-> "started",
              by |-> "none", wait |-> "ready"]

\* ... until the buffer holds max_log_lines lines
InitLogBuffer ==
    InitRunning([i \in 1..max_log_lines |->
                    IF i = 1 THEN ReadyLine ELSE DoneOnlyLine])

\* the attach step of main lies before this state
NextLogBuffer ==
    \/ MenuLoop
    \/ \E t \in Children : Reader(t) \/ ReadError(t)
    \/ \E p \in AllProcs : ProcExit(p)

SpecLogBuffer == InitLogBuffer /\ [][NextLogBuffer]_vars

(* ---------------- the tunnel menu (lines 1026-1176) ---------------- *)
\* line 1034: what the operator typed counts as a URL
is_url(addr) == addr = UrlAddr

\* an add that replaces the entry instead of extending it
AddTo_Replace(entry, addr) ==
    [present |-> TRUE,
     ips |-> IF is_url(addr) THEN {} ELSE {addr},
     urls |-> IF is_url(addr) THEN {addr} ELSE {}]

\* lines 1038-1050: the address joins the entry, which is created if needed
AddTo(entry, addr) ==
    [present |-> TRUE,
     ips |-> IF is_url(addr) THEN entry.ips ELSE entry.ips \cup {addr},
     urls |-> IF is_url(addr) THEN entry.urls \cup {addr} ELSE entry.urls]

\* the service names the operator types in the menu: one the reader knows,
\* and the custom name that is also the reader's fallback key
MenuServices == {"ngrok", "unknown"}

\* the menu runs on the caller thread, between two operations
InMenu == pc = "idle" /\ Quiet

\* choice 1, lines 1026-1053
TunnelAdd ==
    /\ InMenu
    /\ \E s \in MenuServices, addr \in {IpAddr, UrlAddr} :
          tunnel_info' = [tunnel_info EXCEPT ![s] = AddTo(@, addr)]
    /\ UNCHANGED <<configured, sup, env, thr, read_errors, pc, frame,
                   locals, ret>>

\* choice 2, lines 1055-1142: one address of an entry is removed (editing it
\* to what it was changes nothing)
TunnelEdit ==
    /\ InMenu
    /\ \E s \in MenuServices, addr \in {IpAddr, UrlAddr} :
          /\ tunnel_info[s].present
          /\ addr \in tunnel_info[s].ips \cup tunnel_info[s].urls
          /\ tunnel_info' = [tunnel_info EXCEPT
                                ![s].ips = @ \ {addr}, ![s].urls = @ \ {addr}]
    /\ UNCHANGED <<configured, sup, env, thr, read_errors, pc, frame,
                   locals, ret>>

\* choice 3, lines 1144-1178: del manager.tunnel_info[selected_service]
TunnelRemove ==
    /\ InMenu
    /\ \E s \in MenuServices :
          /\ tunnel_info[s].present
          /\ tunnel_info' = [tunnel_info EXCEPT ![s] = Absent]
    /\ UNCHANGED <<configured, sup, env, thr, read_errors, pc, frame,
                   locals, ret>>

TunnelMenu == TunnelAdd \/ TunnelEdit \/ TunnelRemove

\* a server that runs a tunnel, its reader and the tunnel menu
InitTunnel == InitRunning(<<ReadyLine>>)

NextTunnel ==
    \/ TunnelMenu
    \/ \E t \in Children : \/ Reader(t) \/ ReadTunnelLine(t)
                            \/ ReadBlank(t) \/ ReadError(t)
    \/ \E p \in AllProcs : ProcExit(p)

SpecTunnel == InitTunnel /\ [][NextTunnel]_vars


(* ======================================================================= *)
(* The claims                                                              *)
(* ======================================================================= *)
\* the caller thread takes a step
CallerSteps == pc' # pc \/ ret' # ret

\* the operation op returns in this step
Returns(op) == ret' # ret /\ ret'.op = op

\* the child spawned by the last start_server
LastChild == log_thread

\* some line of the buffer holds both readiness markers
HasReadyLine(buf) ==
    \E i \in 1..Len(buf) : {"Done", "For help, type"} \subseteq buf[i]

\* C1: a start_server() issued while is_running is True returns success and
\* leaves the state Running: the handle is not replaced, no process is
\* spawned and no log-reader thread is started.
C1_StartWhileRunning ==
    [][(pc = "start_266" /\ is_running /\ CallerSteps) =>
          /\ Returns("start_server") /\ ret'.ok
          /\ is_running'
          /\ server_process' = server_process
          /\ pstate' = pstate
          /\ thr' = thr
          /\ log_thread' = log_thread]_vars

C1_Witness ==
    /\ pc = "idle" /\ ret.op = "start_server" /\ ret.via = "already_running"
    /\ is_running
    /\ server_process \in Children
    /\ ThreadAlive(server_process)

\* C2: when the readiness wait of start_server() saw a "FAILED TO BIND TO
\* PORT" line, the start attempt returns failure and the supervisor is not
\* Running, whether or not the child is still alive.
C2_BindFailureFails ==
    (ret.op = "start_server" /\ ret.wait = "bind_failure") =>
        (~ret.ok /\ ~is_running)

\* C3: when the readiness wait reached its ceiling with no marker seen and
\* the child alive, start_server() returns failure, the state is not Running
\* and the child has been sent neither terminate nor kill.
C3_TimeoutFails ==
    (ret.op = "start_server" /\ ret.wait = "timeout"
        /\ pstate[LastChild] = "alive") =>
        (~ret.ok /\ ~is_running /\ signals[LastChild] = <<>>)

\* C4: during the readiness wait, with the child alive, a buffer line that
\* holds both "Done" and "For help, type" ends the polling loop at that
\* poll; and a start_server() whose wait ended as ready returns success with
\* the state Running for as long as the child stays alive.
C4_ReadyEndsWait ==
    [][(pc = "start_330" /\ polls < StartPollLimit /\ CallerSteps
          /\ ~Exited(server_process) /\ HasReadyLine(log_buffer)) =>
              (pc' = "start_349" /\ (ready' \/ fail'))]_vars

C4_ReadyIsRunning ==
    (ret.op = "start_server" /\ ret.wait = "ready"
        /\ pstate[LastChild] = "alive") =>
        (ret.ok /\ is_running /\ server_process = LastChild)

C4_ReadyLine == []C4_ReadyIsRunning /\ C4_ReadyEndsWait

C4_Witness ==
    /\ pc = "idle" /\ ret.op = "start_server" /\ ret.wait = "ready" /\ ret.ok
    /\ is_running /\ pstate[LastChild] = "alive"
    /\ log_buffer = <<ReadyLine>>

\* C5: whenever start_server() returns success, at that moment is_running is
\* True, the handle is set and the log-reader thread of that child is alive.
C5_SuccessIsRunning ==
    [][(Returns("start_server") /\ ret'.ok) =>
          /\ is_running'
          /\ server_process' # None
          /\ log_thread' # None
          /\ log_thread' = server_process'
          /\ thr'[log_thread'].pc \notin {"none", "done", "crashed"}]_vars

\* C6: whenever stop_server() called on a Running supervisor returns, the
\* log-reader has been told to stop and no log-reader thread is alive.
C6_StopJoinsReader ==
    [][(Returns("stop_server") /\ ret'.via # "not_running") =>
          /\ log_thread' # None => stop_log_thread'
          /\ \A t \in Children : thr'[t].pc \in {"none", "done", "crashed"}]_vars

C6_Witness ==
    /\ pc = "idle" /\ ret.op = "stop_server" /\ ret.via = "terminated"
    /\ stop_log_thread
    /\ log_thread # None /\ thr[log_thread].pc = "done"
    /\ log_buffer # <<>> /\ log_buffer[Len(log_buffer)] = EndedLine

\* C7: after stop_server() called on a Running supervisor has returned, the
\* handle is None and is_running is False, whichever tier ended the child
\* and also when the shutdown sequence raised.
C7_StopClears ==
    (pc \in {"idle", "restart_422"} /\ ret.op = "stop_server"
        /\ ret.via # "not_running") =>
        (~is_running /\ server_process = None)

C7_Witness ==
    /\ pc = "idle" /\ ret.op = "stop_server" /\ ret.via = "killed"
    /\ ~is_running /\ server_process = None

\* C8: stop_server() escalates in order: terminate() is sent only at line
\* 386, to a child that is alive, has been written "stop" and has been
\* polled StopPollLimit times; kill() is sent only at line 390, to a child
\* that is still alive after terminate().  A child that exited during the
\* polls gets neither.
C8_Escalation ==
    [][\A c \in Children :
          (Len(signals'[c]) > Len(signals[c])) =>
              /\ c = server_process
              /\ pstate[c] = "alive"
              /\ signals'[c] \in {<<"terminate">>, <<"terminate", "kill">>}
              /\ Len(signals'[c]) = Len(signals[c]) + 1
              /\ Len(signals'[c]) = 1 =>
                    /\ pc = "stop_384"
                    /\ polls = StopPollLimit
                    /\ stdin[c] # <<>>
                    /\ stdin[c][Len(stdin[c])] = Normalize(StopCommand)
              /\ Len(signals'[c]) = 2 => pc = "stop_388"]_vars

C8_Witness ==
    /\ pc = "stop_393"
    /\ signals[server_process] = <<"terminate", "kill">>
    /\ polls = StopPollLimit

\* C9: stop_server() on a Stopped supervisor returns success and changes
\* nothing: no write, no signal, is_running, the handle, the log buffer and
\* the log-reader flag stay as they are.
C9_StopWhileStopped ==
    [][(pc = "stop_368" /\ ~is_running /\ CallerSteps) =>
          /\ Returns("stop_server") /\ ret'.ok
          /\ UNCHANGED <<is_running, server_process, log_buffer,
                         stop_log_thread, log_thread, resource_usage,
                         stdin, signals, pstate, thr>>]_vars

C9_Witness ==
    /\ pc = "idle" /\ ret.op = "stop_server" /\ ret.via = "not_running"
    /\ ~is_running
    /\ pstate[1] = "dead"

\* C10: send_command() while is_running is False or the handle is None
\* returns the not-running failure, writes nothing and changes no state of
\* the supervisor.
C10_SendWhileNotRunning ==
    [][(pc = "send_429" /\ (~is_running \/ server_process = None)
          /\ CallerSteps) =>
          /\ Returns("send_command") /\ ~ret'.ok /\ ret'.via = "not_running"
          /\ UNCHANGED <<is_running, server_process, log_buffer,
                         stop_log_thread, log_thread, resource_usage,
                         stdin, signals, pstate, thr>>]_vars

C10_Witness ==
    /\ pc = "idle" /\ ret.op = "send_command" /\ ret.via = "not_running"
    /\ ~is_running

\* C11: the log buffer never holds more than max_log_lines entries, also
\* after the diagnostic line of a read error and after the line
\* "[Server process has ended]".
C11_BufferBounded == Len(log_buffer) <= max_log_lines

\* The supervisor state of the specification, read off the program: Starting
\* from the spawn until line 355, Stopping from line 375 until stop_server
\* returns, otherwise Running or Stopped as is_running says.
StartingPcs == {"start_330", "start_347", "start_349", "start_355"}
StoppingPcs == {"stop_375", "stop_378", "stop_381", "stop_384", "stop_388",
                "stop_393", "stop_394"}
State ==
    IF pc \in StartingPcs THEN "Starting"
    ELSE IF pc \in StoppingPcs THEN "Stopping"
    ELSE IF is_running THEN "Running"
    ELSE "Stopped"

\* C12: the handle is not None exactly when the state is Starting, Running
\* or Stopping; in particular a Stopped supervisor holds no handle, also
\* after the child exited on its own and the log reader recorded it.
C12_HandleIffState ==
    (server_process # None) <=> (State \in {"Starting", "Running", "Stopping"})

\* the cycle of the specification's state machine
Cycle == {<<"Stopped", "Starting">>, <<"Starting", "Running">>,
          <<"Running", "Stopping">>, <<"Stopping", "Stopped">>}

\* what a call in the wrong state leaves alone
Untouched == UNCHANGED <<is_running, server_process, log_buffer,
                         stop_log_thread, log_thread, resource_usage,
                         stdin, signals, pstate, thr>>

\* start_server() while not Stopped, stop_server() and send_command() while
\* not Running: the call returns at its first check, not through a handler,
\* and changes nothing
WrongStateNoOp ==
    /\ (pc = "start_266" /\ State # "Stopped" /\ CallerSteps) =>
          /\ Returns("start_server") /\ ret'.via = "already_running"
          /\ Untouched
    /\ (pc = "stop_368" /\ State # "Running" /\ CallerSteps) =>
          /\ Returns("stop_server") /\ ret'.via = "not_running"
          /\ Untouched
    /\ (pc = "send_429" /\ State # "Running" /\ CallerSteps) =>
          /\ Returns("send_command") /\ ret'.via = "not_running"
          /\ Untouched

AfterRestartStop ==
    /\ pc \in {"restart_422", "start_266", "start_307"}
    /\ ret.op = "stop_server" /\ ret.by = "restart"

\* C14: restart_server() entered on a Running supervisor spawns the new
\* child only after its stop_server() has returned success with the old
\* handle cleared and the state Stopped.
C14_StopThenStart ==
    AfterRestartStop => (ret.ok /\ server_process = None /\ ~is_running)

\* the remaining parts of C14: a stop_server() that reports failure ends the
\* restart with no spawn; restart_server() entered on a Stopped supervisor
\* goes straight to start_server() and changes nothing itself

C14_FailedStopEnds ==
    [][(Returns("stop_server") /\ frame = "restart" /\ ~ret'.ok) =>
          (pc' = "idle" /\ frame' = "none" /\ pstate' = pstate)]_vars

C14_StoppedIsStart ==
    [][(pc = "restart_410" /\ ~is_running /\ CallerSteps) =>
          (pc' = "start_266" /\ ret' = ret /\ Untouched)]_vars

\* C15: every string that send_command() wrote to a child's standard input
\* is the command followed by exactly one newline, also when the text given
\* ended with one or with several newlines already.
C15_OneNewline ==
    \A p \in Children : \A i \in 1..Len(stdin[p]) : stdin[p][i].nl = 1

\* C16: a child that has exited when the readiness wait is over makes
\* start_server() return failure with the handle cleared, and is_running is
\* False from the spawn until then and afterwards: that child is never
\* reported Running.
C16_ExitedFails ==
    [][(pc = "start_349" /\ Exited(server_process) /\ CallerSteps) =>
          /\ Returns("start_server") /\ ~ret'.ok /\ ret'.via = "exited"
          /\ server_process' = None /\ ~is_running']_vars

C16_NotRunning ==
    /\ pc \in StartingPcs => ~is_running
    /\ (ret.op = "start_server" /\ ret.via = "exited") =>
          (~ret.ok /\ ~is_running /\ server_process = None)

\* the poll of line 331 ends the wait at once
C16_ExitEndsWait ==
    [][(pc = "start_330" /\ polls < StartPollLimit /\ CallerSteps
          /\ Exited(server_process)) => (pc' = "start_349" /\ fail')]_vars

C16_ExitDuringWait ==
    []C16_NotRunning /\ C16_ExitedFails /\ C16_ExitEndsWait

C16_Witness ==
    /\ pc = "idle" /\ ret.op = "start_server" /\ ret.via = "exited"
    /\ ret.wait = "exited"
    /\ log_thread # None /\ pstate[log_thread] = "dead"
    /\ server_process = None /\ ~is_running

\* C17: a start_server() that cannot spawn (the server information is
\* incomplete, or Popen raises) returns failure through a return statement,
\* leaves is_running False and the handle None, creates no process and
\* starts no log-reader thread.
C17_SpawnFailure ==
    [][(Returns("start_server") /\ ret'.via \in {"incomplete", "spawn_failed"}) =>
          /\ ~ret'.ok /\ pc' = "idle"
          /\ ~is_running' /\ server_process' = None
          /\ pstate' = pstate /\ thr' = thr /\ log_thread' = log_thread]_vars

C17_Witness ==
    /\ pc = "idle" /\ ret.op = "start_server" /\ ret.via = "spawn_failed"
    /\ pstate[1] = "dead" /\ log_thread = 1
    /\ log_buffer # <<>> /\ log_buffer[Len(log_buffer)] = EndedLine
    /\ server_process = None

\* C18: a resource-usage query made while not running leaves the zeroed
\* snapshot; a query that finds the process no longer queryable returns
\* normally with is_running False and the handle None, and the snapshot that
\* get_status() hands out from then on (resource_usage) is the zeroed one.
C18_ZeroedWhenStopped ==
    (ret.op \in {"update_resource_usage", "get_status"}
        /\ ret.via \in {"zeroed", "lost"}) =>
        /\ resource_usage = ZeroUsage
        /\ ret.via = "lost" => (~is_running /\ server_process = None)

\* C19: get_status() has no side effects: no step of it changes is_running,
\* server_process, resource_usage or log_buffer.
C19_StatusReadOnly ==
    [][(pc \in {"status_591", "status_598", "status_614"} /\ CallerSteps) =>
          UNCHANGED <<is_running, server_process, resource_usage,
                      log_buffer>>]_vars

\* C20: when the child behind the handle has exited while is_running is
\* True, then, the log reader and the resource-usage queries being scheduled,
\* is_running eventually becomes False.
C20_EventuallyStopped ==
    (is_running /\ server_process # None /\ Exited(server_process))
        ~> ~is_running

C20_Witness ==
    /\ pc = "idle" /\ ret.op = "update_resource_usage" /\ ret.via = "lost"
    /\ pstate[External] = "dead"
    /\ ~is_running

\* C21: no update of is_running is lost between the caller and the log
\* reader: line 355 never sets is_running to True for a child that has
\* exited and whose reader has recorded the exit and finished, so the
\* reader's 'process ended' write is never overwritten.
C21_NoLostUpdate ==
    [][(~is_running /\ is_running' /\ server_process' \in Children) =>
          ~(/\ pstate'[server_process'] = "dead"
            /\ thr'[server_process'].pc = "done"
            /\ EndedLine = log_buffer'[Len(log_buffer')])]_vars

\* the other part of C21: with the caller idle and every reader finished or
\* blocked, a spawned child that has exited is not reported as running
C21_QuiescentStopped ==
    (pc = "idle" /\ Quiet /\ server_process \in Children
        /\ Exited(server_process)) => ~is_running

\* C22: at most one log-reader thread is alive at any moment, and the
\* reader started with one child never reads the output of another: once a
\* later start_server() has started its reader, no earlier reader is alive.
C22_OneReader ==
    /\ Cardinality(LiveReaders) <= 1
    /\ \A t \in Children : thr[t].h \in {None, t}
    /\ \A t \in LiveReaders : t = log_thread

C22_Witness ==
    /\ log_thread = 2 /\ server_process = 2 /\ is_running
    /\ thr[2].pc = "r456_wait" /\ thr[2].h = 2
    /\ thr[1].pc = "done"
    /\ pc = "idle" /\ ret.op = "start_server" /\ ret.by = "restart"

\* C23: log_buffer and tunnel_info change only in steps of a log-reader
\* thread, never in a step of the caller thread.
C23_OnlyReaderMutates ==
    [][(log_buffer' # log_buffer \/ tunnel_info' # tunnel_info) =>
          (thr' # thr /\ pc' = pc)]_vars

\* C24: a poll of the readiness wait ends the wait as ready or as failed on
\* a log line only if the child spawned by this call has printed a line: a
\* marker line left in the buffer by an earlier run decides nothing.
C24_OwnLinesOnly ==
    [][(pc = "start_330" /\ CallerSteps /\ ~StartedDead
          /\ (ready' \/ fail')) => emitted[server_process] > 0]_vars

\* C25: no log-reader thread ends in an unhandled exception: whenever the
\* caller clears the handle, the reader still leaves its loop and completes
\* its final check.
C25_ReaderNeverCrashes == \A t \in Children : thr[t].pc # "crashed"

\* C26: the supervisor never clears its handle while the process behind it
\* is alive, so a Stopped supervisor with a cleared handle has left no
\* process running that it spawned or attached to.
C26_NoLiveProcessDropped ==
    [][(server_process # None /\ server_process' = None) =>
          pstate'[server_process] # "alive"]_vars

\* the reader t takes an empty read: readline() returns and nothing is
\* logged, neither a line nor a diagnostic
EmptyRead(t) ==
    /\ thr[t].pc = "r456_wait"
    /\ thr'[t].pc # "r456_wait"
    /\ log_buffer' = log_buffer
    /\ read_errors' = read_errors

\* C27: a read that returns an empty line or end of file makes the reader
\* loop break in that iteration (the reader goes to the final check of line
\* 498), whether or not the child is alive and the stop flag is set.
C27_EmptyReadBreaks ==
    [][\A t \in Children : EmptyRead(t) => thr'[t].pc = "r498"]_vars

\* C28: an error raised while the reader reads is caught inside the loop: the
\* reader goes to the handler and from there back to the loop condition, the
\* caller is not touched, the diagnostic line is appended exactly when the
\* stop flag is clear, and with the flag clear and the handle present the
\* loop condition lets the reader try again.
C28_ErrorsAbsorbed ==
    [][\A t \in Children :
          /\ (thr[t].pc = "r456_wait" /\ read_errors' # read_errors) =>
                 thr'[t].pc = "r493" /\ pc' = pc /\ ret' = ret
          /\ (thr[t].pc = "r493" /\ thr'[t] # thr[t]) =>
                 /\ thr'[t].pc = "r450"
                 /\ pc' = pc /\ ret' = ret
                 /\ log_buffer' = IF stop_log_thread THEN log_buffer
                                  ELSE Append(log_buffer, ErrorLine)
          /\ (/\ thr[t].pc = "r450" /\ thr'[t] # thr[t]
              /\ ~stop_log_thread /\ server_process # None) =>
                 thr'[t].pc = "r452"]_vars

\* a read failed, the diagnostic is in the buffer and the same reader waits
\* in readline() again
C28_Witness ==
    /\ read_errors > 0
    /\ \E i \in 1..Len(log_buffer) : log_buffer[i] = ErrorLine
    /\ \E t \in Children : thr[t].pc = "r456_wait" /\ thr[t].h = server_process

\* a read failed while stop_server had the stop flag set: nothing is logged
C28_SilentWitness ==
    /\ read_errors > 0
    /\ stop_log_thread
    /\ \A i \in 1..Len(log_buffer) : log_buffer[i] # ErrorLine
    /\ \E t \in Children : thr[t].pc = "r450"

\* the reader t has taken a line from the child in this step: the line is now
\* the last one of the buffer
ProcessesLine(t) ==
    /\ thr[t].pc = "r456_wait"
    /\ thr'[t].pc = "r450"
    /\ log_buffer' # log_buffer

\* the line names a tunnel, in any case, and holds an address
NamesTunnel(line) ==
    /\ line \cap {"tunnel", "ngrok", "NGROK", "playit", "zrok"} # {}
    /\ line \cap {IpAddr, UrlAddr} # {}

\* the first of ngrok, playit, zrok that the line holds
TunnelKey(line) ==
    IF line \cap {"ngrok", "NGROK"} # {} THEN "ngrok"
    ELSE IF "playit" \in line THEN "playit"
    ELSE IF "zrok" \in line THEN "zrok"
    ELSE "unknown"

\* C29: for each line the reader processes, tunnel_info changes only if the
\* line holds one of the keywords tunnel, ngrok, playit, zrok (in any case)
\* and an IP or URL match; then exactly one entry is written, the one of the
\* first of ngrok, playit, zrok in the line, else of "unknown", with the
\* addresses of the line; every other line leaves tunnel_info unchanged.
C29_TunnelScan ==
    [][\A t \in Children : ProcessesLine(t) =>
          LET line == log_buffer'[Len(log_buffer')]
          IN  IF NamesTunnel(line)
              THEN /\ tunnel_info'[TunnelKey(line)] =
                         [present |-> TRUE, ips |-> line \cap {IpAddr},
                          urls |-> line \cap {UrlAddr}]
                   /\ \A s \in Services \ {TunnelKey(line)} :
                         tunnel_info'[s] = tunnel_info[s]
              ELSE tunnel_info' = tunnel_info]_vars

\* the reader has just filed a line that names NGROK and playit under ngrok
C29_Witness ==
    /\ log_buffer[Len(log_buffer)] = {"NGROK", "playit", IpAddr}
    /\ tunnel_info["ngrok"] = [present |-> TRUE, ips |-> {IpAddr}, urls |-> {}]
    /\ ~tunnel_info["playit"].present
    /\ \E t \in Children : thr[t].pc = "r450"

\* the caller is inside start_server, inside stop_server
InStart == pc \in {"start_266", "start_307", "start_330", "start_347",
                   "start_349", "start_355", "start_356", "start_614"}
InStop == pc \in {"stop_368", "stop_375", "stop_378", "stop_381", "stop_384",
                  "stop_388", "stop_393", "stop_394"}

\* C30: every call of start_server and of stop_server terminates: the
\* readiness wait makes at most StartPollLimit polls whatever the child
\* prints, stop_server makes at most StopPollLimit liveness polls, and the
\* caller always leaves start_server and stop_server again, also when the
\* child never exits by itself and has to be killed.
C30_Terminates ==
    /\ [](pc \in {"start_330", "start_347"} => polls <= StartPollLimit)
    /\ [](pc \in {"stop_378", "stop_381"} => polls <= StopPollLimit)
    /\ InStart ~> ~InStart
    /\ InStop ~> ~InStop

\* stop_server has returned after it used up its polls, terminated the child,
\* waited and killed it
C30_Witness ==
    /\ pc = "idle"
    /\ ret.op = "stop_server" /\ ret.via = "killed"
    /\ server_process = None

\* start_server has returned after the readiness wait ran into its ceiling
C30_TimeoutWitness ==
    /\ pc = "idle"
    /\ ret.op = "start_server" /\ ret.wait = "timeout"

====
